---- MODULE Spec2Model ----
(***************************************************************************)
(* Model of RecursiveImageGenerator                                        *)
(* (src/automation/recursive-image-generator.js): parseReference,          *)
(* resolveReferences, buildDependencyOrder, generateImage and the two      *)
(* passes of processChapter.                                               *)
(*                                                                         *)
(* A JavaScript string is a sequence of one-character strings, so that the *)
(* regular expression of parseReference is computed, not assumed.  An      *)
(* absent (undefined) string field is the empty sequence: both are falsy.  *)
(* A section's output path is its image file name.  Every section of the   *)
(* modelled chapters has a unique id and an image, and the ids are         *)
(* ordinary names (no name of an Object.prototype member).  this.characters *)
(* is written next to generatedImages and read by the summary only; it is  *)
(* left out.  A backend call either succeeds (the file is written) or      *)
(* throws; each answer is a step of its own, the call being awaited.       *)
(*                                                                         *)
(* processChapter is run by runRecursiveGeneration (the script kept in     *)
(* src/README.md, lines 179-255) with both API keys set; the page builder  *)
(* it calls after the generation returns or throws.                        *)
(***************************************************************************)
EXTENDS Integers, Sequences, FiniteSets, TLC

(* ---------------------------- bounds ----------------------------------- *)
\* the reference fields and array entries a chapter sets, all sections together
MaxRefs == 2

\* the sections of a chapter whose reference-conditioned calls are followed
\* into the generated script
MaxScriptSections == 2

\* the calls of resolveReferences made in a row on one section
MaxCalls == 2

(* ------------------------ strings and ids ------------------------------ *)
\* the section ids of a chapter: a chapter is a prefix of a, b, c
IdPool == <<"a", "b", "c">>

MaxSections == Len(IdPool)

DanglingName == "z"

ImageSuffix == <<".", "i", "m", "a", "g", "e", "}">>

\* the reference string "${name.image}"
RefString(name) == <<"$", "{", name>> \o ImageSuffix

\* a string that does not follow the reference syntax: the bare name
BareString(name) == <<name>>

RECURSIVE Join(_)
Join(chars) == IF chars = <<>> THEN "" ELSE Head(chars) \o Join(Tail(chars))

(* ------------------------- parseReference ------------------------------ *)
\* index of the first "." of ref at or after position from, 0 when none
RECURSIVE FirstDot(_, _)
FirstDot(ref, from) ==
    IF from > Len(ref) THEN 0
    ELSE IF ref[from] = "." THEN from
    ELSE FirstDot(ref, from + 1)

\* /\$\{([^.]+)\.image\}/ matches with "$" at position i
MatchAt(ref, i) ==
    /\ i + 1 <= Len(ref)
    /\ ref[i] = "$"
    /\ ref[i + 1] = "{"
    /\ LET j == FirstDot(ref, i + 2)
       IN /\ j >= i + 3
          /\ j + Len(ImageSuffix) - 1 <= Len(ref)
          /\ SubSeq(ref, j, j + Len(ImageSuffix) - 1) = ImageSuffix

\* JS null: parseReference's result when the string does not match
Null == ""

\* position of the first match of the pattern at or after from, 0 when none
RECURSIVE FirstMatch(_, _)
FirstMatch(ref, from) ==
    IF from > Len(ref) THEN 0
    ELSE IF MatchAt(ref, from) THEN from
    ELSE FirstMatch(ref, from + 1)

\* mutant: the whole match is returned (match[0]), not the group
parseReferenceWholeMatch(ref) ==
    LET i == FirstMatch(ref, 1)
    IN IF i = 0 THEN Null
       ELSE Join(SubSeq(ref, i, FirstDot(ref, i + 2) + Len(ImageSuffix) - 1))

parseReference(ref) ==
    LET i == FirstMatch(ref, 1)
    IN IF i = 0 THEN Null
       ELSE Join(SubSeq(ref, i + 2, FirstDot(ref, i + 2) - 1))

(* ---------------------------- sections --------------------------------- *)
\* sections.find(s => s.id === refId): index of the first match, 0 when none
find(sections, refId) ==
    LET hits == {i \in 1..Len(sections) : sections[i].id = refId}
    IN IF hits = {} THEN 0 ELSE CHOOSE i \in hits : \A k \in hits : i <= k

(* ----------------------- buildDependencyOrder -------------------------- *)
\* order: indices into sections, in push order; thrown/at: the Error raised
EmptyOrder == [order |-> <<>>, visited |-> {}, visiting |-> {},
               thrown |-> FALSE, at |-> ""]

RECURSIVE visit(_, _, _)
RECURSIVE visitEach(_, _, _, _)

\* mutant: the dependency is never visited (the order is the input order)
visitDepSkipped(sections, st, ref) == st

\* mutant: a reference that names no section raises an Error
visitDepStrict(sections, st, ref) ==
    LET refId == parseReference(ref)
        dep == IF refId # Null THEN find(sections, refId) ELSE 0
    IN IF st.thrown \/ refId = Null THEN st
       ELSE IF dep = 0 THEN [st EXCEPT !.thrown = TRUE, !.at = refId]
       ELSE visit(sections, st, dep)

\* "const dep = sections.find(...); if (dep) visit(dep)" for one reference
visitDep(sections, st, ref) ==
    LET refId == parseReference(ref)
        dep == IF refId # Null THEN find(sections, refId) ELSE 0
    IN IF st.thrown \/ dep = 0 THEN st ELSE visit(sections, st, dep)

\* section.use_characters.forEach(...) from element k on
visitEach(sections, st, refs, k) ==
    IF st.thrown \/ k > Len(refs) THEN st
    ELSE visitEach(sections, visitDep(sections, st, refs[k]), refs, k + 1)

\* mutant: visited.add(section.id) is forgotten
visitUnmarked(sections, st, i) ==
    LET section == sections[i]
    IN IF st.thrown \/ section.id \in st.visited THEN st
       ELSE IF section.id \in st.visiting
            THEN [st EXCEPT !.thrown = TRUE, !.at = section.id]
       ELSE LET s1 == [st EXCEPT !.visiting = @ \cup {section.id}]
                s2 == IF section.use_character # <<>>
                      THEN visitDep(sections, s1, section.use_character)
                      ELSE s1
                s3 == IF section.has_use_characters
                      THEN visitEach(sections, s2, section.use_characters, 1)
                      ELSE s2
            IN IF s3.thrown THEN s3
               ELSE [s3 EXCEPT !.visiting = @ \ {section.id},
                               !.order = Append(@, i)]

visit(sections, st, i) ==
    LET section == sections[i]
    IN IF st.thrown \/ section.id \in st.visited THEN st
       ELSE IF section.id \in st.visiting
            THEN [st EXCEPT !.thrown = TRUE, !.at = section.id]
       ELSE LET s1 == [st EXCEPT !.visiting = @ \cup {section.id}]
                s2 == IF section.use_character # <<>>
                      THEN visitDep(sections, s1, section.use_character)
                      ELSE s1
                s3 == IF section.has_use_characters
                      THEN visitEach(sections, s2, section.use_characters, 1)
                      ELSE s2
            IN IF s3.thrown THEN s3
               ELSE [s3 EXCEPT !.visiting = @ \ {section.id},
                               !.visited = @ \cup {section.id},
                               !.order = Append(@, i)]

\* sections.forEach(section => visit(section)) from section i on
RECURSIVE visitAll(_, _, _)
visitAll(sections, st, i) ==
    IF st.thrown \/ i > Len(sections) THEN st
    ELSE visitAll(sections, visit(sections, st, i), i + 1)

buildDependencyOrder(sections) == visitAll(sections, EmptyOrder, 1)

(* ------------------------- resolveReferences --------------------------- *)
\* the metadata resolveReferences adds to the copy; "" and <<>> are absent
Unresolved == [characterId |-> "", characterReference |-> "",
               missingCharacterRef |-> "", characterReferences |-> <<>>,
               missingCharacterRefs |-> <<>>]

\* mutant: the missing reference is not marked
resolveFieldUnmarked(resolved, ref, generatedImages) ==
    LET refId == parseReference(ref)
    IN IF ref = <<>> \/ refId = Null THEN resolved
       ELSE IF refId \in DOMAIN generatedImages
            THEN [resolved EXCEPT !.characterId = refId,
                                  !.characterReference = generatedImages[refId]]
            ELSE [resolved EXCEPT !.characterId = refId]

\* the branch shared by the referenceImage and the use_character field
resolveField(resolved, ref, generatedImages) ==
    LET refId == parseReference(ref)
    IN IF ref = <<>> \/ refId = Null THEN resolved
       ELSE IF refId \in DOMAIN generatedImages
            THEN [resolved EXCEPT !.characterId = refId,
                                  !.characterReference = generatedImages[refId]]
            ELSE [resolved EXCEPT !.characterId = refId,
                                  !.missingCharacterRef = refId]

\* section.use_characters.forEach(...) from element k on
RECURSIVE resolveEach(_, _, _, _)
resolveEach(resolved, refs, k, generatedImages) ==
    IF k > Len(refs) THEN resolved
    ELSE LET refId == parseReference(refs[k])
             next == IF refId = Null THEN resolved
                     ELSE IF refId \in DOMAIN generatedImages
                          THEN [resolved EXCEPT !.characterReferences =
                                   Append(@, [id |-> refId,
                                              path |-> generatedImages[refId]])]
                          ELSE [resolved EXCEPT !.missingCharacterRefs =
                                   Append(@, refId)]
         IN resolveEach(next, refs, k + 1, generatedImages)

\* mutant: a section whose own image is registered gets it attached
resolveReferencesOwnImage(section, generatedImages) ==
    LET r0 == section @@ Unresolved
        r1 == IF section.id \in DOMAIN generatedImages
              THEN [r0 EXCEPT !.characterReference = generatedImages[section.id]]
              ELSE r0
        r2 == resolveField(r1, section.referenceImage, generatedImages)
        r3 == resolveField(r2, section.use_character, generatedImages)
    IN IF section.has_use_characters
       THEN resolveEach(r3, section.use_characters, 1, generatedImages)
       ELSE r3

resolveReferences(section, generatedImages) ==
    LET r0 == section @@ Unresolved
        r1 == resolveField(r0, section.referenceImage, generatedImages)
        r2 == resolveField(r1, section.use_character, generatedImages)
    IN IF section.has_use_characters
       THEN resolveEach(r2, section.use_characters, 1, generatedImages)
       ELSE r2

\* the objects of a call of resolveReferences, by name: objects maps the
\* names of the objects alive to their fields
ObjectNames == {"section", "resolved"}

\* mutant: "const resolved = section": no copy is made
spreadAliased(objects, source) == source

\* "{ ...section }": a new object; its fields are those of the source
spread(objects, source) == CHOOSE name \in ObjectNames : name \notin DOMAIN objects

\* mutant: the call records the ids it found missing in the registry
resolveReferencesCallRecording(objects, section, generatedImages) ==
    LET resolved == spread(objects, section)
        fields == resolveReferences(objects[section], generatedImages)
        missing == ({fields.missingCharacterRef} \ {""})
                       \cup {fields.missingCharacterRefs[k] :
                                k \in 1..Len(fields.missingCharacterRefs)}
    IN [objects |-> [name \in DOMAIN objects \cup {resolved} |->
                        IF name = resolved THEN fields ELSE objects[name]],
        returned |-> resolved,
        generatedImages |->
            [id \in DOMAIN generatedImages \cup missing |->
                IF id \in DOMAIN generatedImages THEN generatedImages[id]
                ELSE "pending"]]

\* the call as it acts on the objects: every assignment of lines 34-83 is to
\* a field of the object resolved is bound to (the arrays pushed to are the
\* new ones of lines 68-69), this.generatedImages is only read
resolveReferencesCall(objects, section, generatedImages) ==
    LET resolved == spread(objects, section)
        fields == resolveReferences(objects[section], generatedImages)
    IN [objects |-> [name \in DOMAIN objects \cup {resolved} |->
                        IF name = resolved THEN fields ELSE objects[name]],
        returned |-> resolved,
        generatedImages |-> generatedImages]

(* --------------------------- generateImage ----------------------------- *)
\* mutant: the array of missing references is not looked at
hasMissingSingleOnly(section) == section.missingCharacterRef # ""

\* lines 163-169: the section still misses a reference
hasMissing(section) ==
    section.missingCharacterRef # "" \/ Len(section.missingCharacterRefs) > 0

missingDeps(section) ==
    IF section.missingCharacterRef # ""
    THEN <<section.missingCharacterRef>>
    ELSE section.missingCharacterRefs

wantsReference(section) ==
    \/ section.use_character # <<>>
    \/ section.has_use_characters
    \/ section.characterId # ""
    \/ section.missingCharacterRef # ""
    \/ section.referenceImage # <<>>
    \/ Len(section.characterReferences) > 0
    \/ Len(section.missingCharacterRefs) > 0

\* mutant: the array of attached references is not looked at
hasActualReferenceSingleOnly(section) == section.characterReference # ""

hasActualReference(section) ==
    section.characterReference # "" \/ Len(section.characterReferences) > 0

\* the backend generateImage awaits for a resolved section
backendOf(section) ==
    IF wantsReference(section) /\ hasActualReference(section)
    THEN "generateWithGeminiReference"
    ELSE IF wantsReference(section) THEN "generateWithGemini"
    ELSE "generateWithOpenAI"

\* generateWithGeminiReference: the file the generated script reads
referenceImageOf(section) ==
    IF section.characterReference # "" THEN section.characterReference
    ELSE section.characterReferences[1].path

(* ------------------------ the modelled chapters ------------------------ *)
\* the strings a reference field may hold, by number: "${x.image}" for the
\* section names and for a name no section has, and a string without the
\* syntax; 0 is the absent field
NumRefStrings == MaxSections + 2

RefStringAt(k) ==
    IF k = 0 THEN <<>>
    ELSE IF k <= MaxSections THEN RefString(IdPool[k])
    ELSE IF k = MaxSections + 1 THEN RefString(DanglingName)
    ELSE BareString(IdPool[1])

\* a reference field and what it costs of the budget MaxRefs
FieldsWithin(budget) == IF budget >= 1 THEN 0..NumRefStrings ELSE {0}

FieldCost(u) == IF u = 0 THEN 0 ELSE 1

\* a use_characters field: <<0>> is the absent field, the rest are arrays;
\* the empty array costs one, an array its length
ListsWithin(budget) ==
    {<<0>>} \cup UNION {[1..l -> 1..NumRefStrings] :
                          l \in (IF budget >= 1 THEN 0..budget ELSE {})}

ListCost(l) ==
    IF l = <<0>> THEN 0 ELSE IF l = <<>> THEN 1 ELSE Len(l)

\* the i-th section of a chapter: unique ids, one image file per section
SectionOf(i, shape) ==
    [id |-> IdPool[i], image |-> IdPool[i] \o ".jpg",
     use_character |-> RefStringAt(shape.u),
     referenceImage |-> RefStringAt(shape.r),
     has_use_characters |-> shape.l # <<0>>,
     use_characters |-> IF shape.l = <<0>> THEN <<>>
                        ELSE [k \in 1..Len(shape.l) |-> RefStringAt(shape.l[k])]]

SectionsOf(chapter) == [i \in 1..Len(chapter) |-> SectionOf(i, chapter[i])]

Images == {IdPool[i] \o ".jpg" : i \in 1..MaxSections}

\* the output directory before the run: empty, or one image already there
DiskSet == {{}} \cup {{file} : file \in Images}

(* ----------------------- language-switcher.js -------------------------- *)
\* the test images a page may have pending at a time
MaxProbes == 2

\* the data-lang of the three buttons
Languages == {"en", "es", "ru"}

\* the data-multilang-src of the images of class multilang-image
MultilangImages == {"hero"}

\* line 4: localStorage.getItem('selectedLanguage') || 'en'
initialLanguage(stored) == IF stored # Null THEN stored ELSE "en"

\* lines 119-126: the file name of an image for a language
variantOf(baseName, lang) ==
    IF lang = "en" THEN baseName \o ".jpg"
    ELSE baseName \o "." \o lang \o ".jpg"

\* lines 10-16 and 90-95: the buttons that get class active
activeButtons(lang) == {button \in Languages : button = lang}

\* the src the page's HTML gives each image: the English file
baseSrc == [img \in MultilangImages |-> variantOf(img, "en")]

NoProbes == [img \in MultilangImages |-> [lang \in Languages |-> 0]]

\* what the server may hold: the English files and any of the translated ones
ServedSets ==
    {{variantOf(img, "en") : img \in MultilangImages} \cup translated :
        translated \in SUBSET {variantOf(img, lang) :
                                  img \in MultilangImages,
                                  lang \in Languages \ {"en"}}}

(* ------------------------------ state ---------------------------------- *)
VARIABLES
    sections,           \* chapterData.sections
    disk,               \* the image files that exist in the output directory
    existing,           \* history: the image files there when the run started
    generatedImages,    \* this.generatedImages: section id -> output path
    pc,                 \* where processChapter stands
    orderedSections,    \* the order built (indices into sections)
    thrownAt,           \* the section id named by the Error thrown, "" if none
    idx,                \* pass 1: position in orderedSections
    needsRegeneration,  \* the Set of deferred ids, in insertion order
    cursor,             \* pass 2: position of the Set iterator
    results,            \* the results summary
    call,               \* the backend call awaited, NoCall if none
    log,                \* history: the generateImage calls made so far
    answers,            \* history: the results of the backend calls awaited
    runner,             \* where runRecursiveGeneration stands
    exitCode            \* the exit code of the process

\* the state of language-switcher.js in a browser tab
VARIABLES
    storage,            \* localStorage's selectedLanguage, Null when not stored
    page,               \* "unloaded", "loading" (script run) or "ready"
    currentLang,        \* the script's currentLang, Null when no page is loaded
    active,             \* the data-lang of the buttons that have class active
    imgSrc,             \* the file each multilingual image shows
    probes,             \* the test images whose load is pending, by file
    served,             \* the image files the server has
    selected            \* history: the argument of the last setLanguage call

generatorVars == <<sections, disk, existing, generatedImages, pc,
                   orderedSections, thrownAt, idx, needsRegeneration, cursor,
                   results, call, log, answers, runner, exitCode>>

languageVars == <<storage, page, currentLang, active, imgSrc, probes, served,
                  selected>>

\* a method of the generator called on its own, and the script that
\* generateWithGeminiReference writes and runs
VARIABLES
    parsed,             \* the parseReference call made: argument and result
    returned,           \* history: the resolveReferences calls made, in order
    scriptPc,           \* where the generated script stands
    retries,            \* the script's retries
    responses,          \* history: what generateContent answered, per attempt
    waits,              \* history: the 3000 ms delays the script has slept
    stdout,             \* the lines of the script's output that are looked at
    generation,         \* how generateWithGeminiReference stands or ended
    scriptFor           \* the call the script was written for: its log position

methodVars == <<parsed, returned, scriptPc, retries, responses, waits, stdout,
                generation, scriptFor>>

vars == <<generatorVars, languageVars, methodVars>>

NoCall == [backend |-> "none", id |-> "", reference |-> "", output |-> ""]

EmptyRegistry == [id \in {} |-> ""]

\* chapterData.sections is some chapter of n sections: the shapes chosen so
\* far, extended by sections that set at most budget references together
RECURSIVE LoadedChapter(_, _, _)
LoadedChapter(chosen, n, budget) ==
    IF Len(chosen) = n THEN sections = SectionsOf(chosen)
    ELSE \E u \in FieldsWithin(budget) :
         \E r \in FieldsWithin(budget - FieldCost(u)) :
         \E l \in ListsWithin(budget - FieldCost(u) - FieldCost(r)) :
            LoadedChapter(Append(chosen, [u |-> u, r |-> r, l |-> l]), n,
                          budget - FieldCost(u) - FieldCost(r) - ListCost(l))

\* processChapter has not been called
NotStarted ==
    /\ generatedImages = EmptyRegistry
    /\ pc = "start"
    /\ orderedSections = <<>>
    /\ thrownAt = ""
    /\ idx = 1
    /\ needsRegeneration = <<>>
    /\ cursor = 1
    /\ results = [total |-> 0, success |-> 0, failed |-> 0, skipped |-> 0,
                  regenerated |-> 0]
    /\ call = NoCall
    /\ log = <<>>
    /\ answers = <<>>
    /\ runner = "running"
    /\ exitCode = 0

\* no page of the site has been opened: nothing is stored
NoPage ==
    /\ storage = Null
    /\ page = "unloaded"
    /\ currentLang = Null
    /\ active = {}
    /\ imgSrc = baseSrc
    /\ probes = NoProbes
    /\ selected = Null

\* no method has been called on its own, no script written
NoParse == [ref |-> <<>>, result |-> Null, called |-> FALSE]

NoMethodCall ==
    /\ parsed = NoParse
    /\ returned = <<>>
    /\ scriptPc = "none"
    /\ retries = 0
    /\ responses = <<>>
    /\ waits = 0
    /\ stdout = {}
    /\ generation = "none"
    /\ scriptFor = 0

Init ==
    /\ \E n \in 0..MaxSections : LoadedChapter(<<>>, n, MaxRefs)
    /\ disk \in DiskSet
    /\ existing = disk
    /\ NoPage
    /\ served = {}
    /\ NotStarted
    /\ NoMethodCall

(* --------------------------- processChapter ---------------------------- *)
\* where the run stands once position i of pass 1 is reached
afterPass1(order, i, needs) ==
    IF i <= Len(order) THEN "pass1"
    ELSE IF Len(needs) > 0 THEN "pass2"
    ELSE "done"

\* where the run stands once the Set iterator is at position k
afterPass2(needs, k) == IF k <= Len(needs) THEN "pass2" ELSE "done"

\* Set.prototype.add
setAdd(set, x) ==
    IF \E k \in 1..Len(set) : set[k] = x THEN set ELSE Append(set, x)

\* Set.prototype.delete of the element the iterator stands on: the
\* iterator then stands on the element that followed it
setDeleteAt(set, k) == SubSeq(set, 1, k - 1) \o SubSeq(set, k + 1, Len(set))

\* mutant: the iterator steps over the element that followed the deleted one
cursorAfterDeleteSkips(k) == k + 1

cursorAfterDelete(k) == k

\* mutant: the registry is replaced by one that holds the new key only
registerAlone(registry, id, outputPath) == (id :> outputPath)

\* this.generatedImages[id] = outputPath
register(registry, id, outputPath) == (id :> outputPath) @@ registry

\* lines 492-511: build the order; the Error of a cycle is not caught
StartChapter ==
    /\ pc = "start"
    /\ LET built == buildDependencyOrder(sections)
       IN IF built.thrown
          THEN /\ pc' = "aborted"
               /\ thrownAt' = built.at
               /\ UNCHANGED <<orderedSections, results>>
          ELSE /\ orderedSections' = built.order
               /\ results' = [results EXCEPT !.total = Len(built.order)]
               /\ pc' = afterPass1(built.order, 1, <<>>)
               /\ UNCHANGED thrownAt
    /\ UNCHANGED <<existing, languageVars, methodVars>>
    /\ UNCHANGED <<sections, disk, generatedImages, idx, needsRegeneration,
                   cursor, call, log, answers, runner, exitCode>>

\* mutant: generateImage is called without await: the loop goes on to the
\* next section while the backend call is pending
AttemptPass1Unawaited ==
    /\ pc = "pass1"
    /\ LET section == sections[orderedSections[idx]]
           resolved == resolveReferences(section, generatedImages)
       IN /\ call' = [backend |-> backendOf(resolved), id |-> section.id,
                      reference |-> "", output |-> resolved.image]
          /\ idx' = idx + 1
          /\ pc' = afterPass1(orderedSections, idx + 1, needsRegeneration)
          /\ log' = Append(log, [pass |-> 1, id |-> section.id,
                                 outcome |-> "submitted"])
          /\ UNCHANGED <<generatedImages, results, needsRegeneration>>
    /\ UNCHANGED <<existing, languageVars, methodVars>>
    /\ UNCHANGED <<sections, disk, orderedSections, thrownAt, cursor, answers,
                   runner, exitCode>>

\* mutant: an image found in the directory is skipped without being
\* registered (no line 174)
AttemptPass1SkipUnregistered ==
    /\ pc = "pass1"
    /\ LET section == sections[orderedSections[idx]]
           resolved == resolveReferences(section, generatedImages)
       IN IF hasMissing(resolved)
          THEN /\ needsRegeneration' = setAdd(needsRegeneration, section.id)
               /\ idx' = idx + 1
               /\ pc' = afterPass1(orderedSections, idx + 1, needsRegeneration')
               /\ log' = Append(log, [pass |-> 1, id |-> section.id,
                                      outcome |-> "deferred"])
               /\ UNCHANGED <<generatedImages, results, call>>
          ELSE IF resolved.image \in disk
          THEN /\ results' = [results EXCEPT !.skipped = @ + 1]
               /\ idx' = idx + 1
               /\ pc' = afterPass1(orderedSections, idx + 1, needsRegeneration)
               /\ log' = Append(log, [pass |-> 1, id |-> section.id,
                                      outcome |-> "skipped"])
               /\ UNCHANGED <<generatedImages, needsRegeneration, call>>
          ELSE /\ call' = [backend |-> backendOf(resolved), id |-> section.id,
                           reference |->
                               IF backendOf(resolved) = "generateWithGeminiReference"
                               THEN referenceImageOf(resolved) ELSE "",
                           output |-> resolved.image]
               /\ pc' = "call1"
               /\ log' = Append(log, [pass |-> 1, id |-> section.id,
                                      outcome |-> "submitted"])
               /\ UNCHANGED <<generatedImages, results, idx, needsRegeneration>>
    /\ UNCHANGED <<existing, languageVars, methodVars>>
    /\ UNCHANGED <<sections, disk, orderedSections, thrownAt, cursor, answers,
                   runner, exitCode>>

\* lines 514-519 and generateImage up to its await (lines 157-209)
AttemptPass1 ==
    /\ pc = "pass1"
    /\ LET section == sections[orderedSections[idx]]
           resolved == resolveReferences(section, generatedImages)
       IN IF hasMissing(resolved)
          THEN /\ needsRegeneration' = setAdd(needsRegeneration, section.id)
               /\ idx' = idx + 1
               /\ pc' = afterPass1(orderedSections, idx + 1, needsRegeneration')
               /\ log' = Append(log, [pass |-> 1, id |-> section.id,
                                      outcome |-> "deferred"])
               /\ UNCHANGED <<generatedImages, results, call>>
          ELSE IF resolved.image \in disk
          THEN /\ generatedImages' =
                      register(generatedImages, section.id, resolved.image)
               /\ results' = [results EXCEPT !.skipped = @ + 1]
               /\ idx' = idx + 1
               /\ pc' = afterPass1(orderedSections, idx + 1, needsRegeneration)
               /\ log' = Append(log, [pass |-> 1, id |-> section.id,
                                      outcome |-> "skipped"])
               /\ UNCHANGED <<needsRegeneration, call>>
          ELSE /\ call' = [backend |-> backendOf(resolved), id |-> section.id,
                           reference |->
                               IF backendOf(resolved) = "generateWithGeminiReference"
                               THEN referenceImageOf(resolved) ELSE "",
                           output |-> resolved.image]
               /\ pc' = "call1"
               /\ log' = Append(log, [pass |-> 1, id |-> section.id,
                                      outcome |-> "submitted"])
               /\ UNCHANGED <<generatedImages, results, idx, needsRegeneration>>
    /\ UNCHANGED <<existing, languageVars, methodVars>>
    /\ UNCHANGED <<sections, disk, orderedSections, thrownAt, cursor, answers,
                   runner, exitCode>>

\* mutant: the Error of a failed backend call is not caught (no catch at
\* lines 223-226): it leaves processChapter
BackendReturns1Rethrows(ok) ==
    /\ pc = "call1"
    /\ IF ok
       THEN /\ disk' = disk \cup {call.output}
            /\ generatedImages' = register(generatedImages, call.id, call.output)
            /\ results' = [results EXCEPT !.success = @ + 1]
            /\ idx' = idx + 1
            /\ pc' = afterPass1(orderedSections, idx + 1, needsRegeneration)
       ELSE /\ pc' = "aborted"
            /\ UNCHANGED <<disk, generatedImages, results, idx>>
    /\ call' = NoCall
    /\ answers' = Append(answers, [pass |-> 1, id |-> call.id, success |-> ok])
    /\ UNCHANGED <<existing, languageVars, methodVars>>
    /\ UNCHANGED <<sections, orderedSections, thrownAt, needsRegeneration,
                   cursor, log, runner, exitCode>>

\* mutant: the registry is written before result.success is looked at
BackendReturns1Registers(ok) ==
    /\ pc = "call1"
    /\ generatedImages' = register(generatedImages, call.id, call.output)
    /\ IF ok
       THEN /\ disk' = disk \cup {call.output}
            /\ results' = [results EXCEPT !.success = @ + 1]
       ELSE /\ results' = [results EXCEPT !.failed = @ + 1]
            /\ UNCHANGED disk
    /\ idx' = idx + 1
    /\ pc' = afterPass1(orderedSections, idx + 1, needsRegeneration)
    /\ call' = NoCall
    /\ answers' = Append(answers, [pass |-> 1, id |-> call.id, success |-> ok])
    /\ UNCHANGED <<existing, languageVars, methodVars>>
    /\ UNCHANGED <<sections, orderedSections, thrownAt, needsRegeneration,
                   cursor, log, runner, exitCode>>

\* mutant: a section whose backend call failed is queued for pass 2
BackendReturns1Requeues(ok) ==
    /\ pc = "call1"
    /\ IF ok
       THEN /\ disk' = disk \cup {call.output}
            /\ generatedImages' = register(generatedImages, call.id, call.output)
            /\ results' = [results EXCEPT !.success = @ + 1]
            /\ UNCHANGED needsRegeneration
       ELSE /\ results' = [results EXCEPT !.failed = @ + 1]
            /\ needsRegeneration' = setAdd(needsRegeneration, call.id)
            /\ UNCHANGED <<disk, generatedImages>>
    /\ idx' = idx + 1
    /\ pc' = afterPass1(orderedSections, idx + 1, needsRegeneration')
    /\ call' = NoCall
    /\ answers' = Append(answers, [pass |-> 1, id |-> call.id, success |-> ok])
    /\ UNCHANGED <<existing, languageVars, methodVars>>
    /\ UNCHANGED <<sections, orderedSections, thrownAt,
                   cursor, log, runner, exitCode>>

\* the backend answers: lines 211-226 and 521-536
BackendReturns1(ok) ==
    /\ pc = "call1"
    /\ IF ok
       THEN /\ disk' = disk \cup {call.output}
            /\ generatedImages' = register(generatedImages, call.id, call.output)
            /\ results' = [results EXCEPT !.success = @ + 1]
       ELSE /\ results' = [results EXCEPT !.failed = @ + 1]
            /\ UNCHANGED <<disk, generatedImages>>
    /\ idx' = idx + 1
    /\ pc' = afterPass1(orderedSections, idx + 1, needsRegeneration)
    /\ call' = NoCall
    /\ answers' = Append(answers, [pass |-> 1, id |-> call.id, success |-> ok])
    /\ UNCHANGED <<existing, languageVars, methodVars>>
    /\ UNCHANGED <<sections, orderedSections, thrownAt, needsRegeneration,
                   cursor, log, runner, exitCode>>

\* mutant: a section still missing a reference is retried until it resolves
AttemptPass2Retries ==
    /\ pc = "pass2"
    /\ LET sectionId == needsRegeneration[cursor]
           found == find(sections, sectionId)
           resolved == resolveReferences(sections[found], generatedImages)
       IN IF hasMissing(resolved)
          THEN /\ log' = Append(log, [pass |-> 2, id |-> sectionId,
                                      outcome |-> "deferred"])
               /\ UNCHANGED <<call, cursor, pc>>
          ELSE /\ call' = [backend |-> backendOf(resolved), id |-> sectionId,
                           reference |->
                               IF backendOf(resolved) = "generateWithGeminiReference"
                               THEN referenceImageOf(resolved) ELSE "",
                           output |-> resolved.image]
               /\ pc' = "call2"
               /\ log' = Append(log, [pass |-> 2, id |-> sectionId,
                                      outcome |-> "submitted"])
               /\ UNCHANGED cursor
    /\ UNCHANGED <<existing, languageVars, methodVars>>
    /\ UNCHANGED <<sections, disk, generatedImages, orderedSections, thrownAt,
                   idx, needsRegeneration, results, answers, runner,
                   exitCode>>

\* lines 543-548 and generateImage with forceRegenerate up to its await
AttemptPass2 ==
    /\ pc = "pass2"
    /\ LET sectionId == needsRegeneration[cursor]
           found == find(sections, sectionId)
       IN IF found = 0
          THEN /\ cursor' = cursor + 1
               /\ pc' = afterPass2(needsRegeneration, cursor + 1)
               /\ UNCHANGED <<call, log>>
          ELSE LET resolved ==
                       resolveReferences(sections[found], generatedImages)
               IN IF hasMissing(resolved)
                  THEN /\ cursor' = cursor + 1
                       /\ pc' = afterPass2(needsRegeneration, cursor + 1)
                       /\ log' = Append(log, [pass |-> 2, id |-> sectionId,
                                              outcome |-> "deferred"])
                       /\ UNCHANGED call
                  ELSE /\ call' = [backend |-> backendOf(resolved),
                                   id |-> sectionId,
                                   reference |->
                                       IF backendOf(resolved) =
                                              "generateWithGeminiReference"
                                       THEN referenceImageOf(resolved) ELSE "",
                                   output |-> resolved.image]
                       /\ pc' = "call2"
                       /\ log' = Append(log, [pass |-> 2, id |-> sectionId,
                                              outcome |-> "submitted"])
                       /\ UNCHANGED cursor
    /\ UNCHANGED <<existing, languageVars, methodVars>>
    /\ UNCHANGED <<sections, disk, generatedImages, orderedSections, thrownAt,
                   idx, needsRegeneration, results, answers, runner,
                   exitCode>>

\* mutant: a backend failure of pass 2 is counted in results.failed while the
\* section stays in needsRegeneration
BackendReturns2CountsFailed(ok) ==
    /\ pc = "call2"
    /\ IF ok
       THEN /\ disk' = disk \cup {call.output}
            /\ generatedImages' = register(generatedImages, call.id, call.output)
            /\ results' = [results EXCEPT !.regenerated = @ + 1]
            /\ needsRegeneration' = setDeleteAt(needsRegeneration, cursor)
            /\ cursor' = cursorAfterDelete(cursor)
       ELSE /\ cursor' = cursor + 1
            /\ results' = [results EXCEPT !.failed = @ + 1]
            /\ UNCHANGED <<disk, generatedImages, needsRegeneration>>
    /\ pc' = afterPass2(needsRegeneration', cursor')
    /\ call' = NoCall
    /\ answers' = Append(answers, [pass |-> 2, id |-> call.id, success |-> ok])
    /\ UNCHANGED <<existing, languageVars, methodVars>>
    /\ UNCHANGED <<sections, orderedSections, thrownAt, idx, log, runner,
                   exitCode>>

\* the backend answers in pass 2: lines 211-226 and 550-558
BackendReturns2(ok) ==
    /\ pc = "call2"
    /\ IF ok
       THEN /\ disk' = disk \cup {call.output}
            /\ generatedImages' = register(generatedImages, call.id, call.output)
            /\ results' = [results EXCEPT !.regenerated = @ + 1]
            /\ needsRegeneration' = setDeleteAt(needsRegeneration, cursor)
            /\ cursor' = cursorAfterDelete(cursor)
       ELSE /\ cursor' = cursor + 1
            /\ UNCHANGED <<disk, generatedImages, results, needsRegeneration>>
    /\ pc' = afterPass2(needsRegeneration', cursor')
    /\ call' = NoCall
    /\ answers' = Append(answers, [pass |-> 2, id |-> call.id, success |-> ok])
    /\ UNCHANGED <<existing, languageVars, methodVars>>
    /\ UNCHANGED <<sections, orderedSections, thrownAt, idx, log, runner,
                   exitCode>>

(* ----------------------- runRecursiveGeneration ------------------------ *)
\* src/README.md lines 220-246: processChapter has returned its summary or
\* thrown; when something was generated or skipped the page is built by
\* ChapterBuilder.buildChapter, which returns (built) or throws; an Error
\* caught ends the process with process.exit(1), otherwise the function
\* returns and the process ends with code 0
RunnerEnds(built) ==
    /\ runner = "running"
    /\ pc \in {"done", "aborted"}
    /\ IF pc = "aborted"
       THEN runner' = "generationFailed" /\ exitCode' = 1
       ELSE IF (results.success > 0 \/ results.skipped > 0) /\ ~built
       THEN runner' = "buildFailed" /\ exitCode' = 1
       ELSE runner' = "returned" /\ UNCHANGED exitCode
    /\ UNCHANGED <<existing, languageVars, methodVars>>
    /\ UNCHANGED <<sections, disk, generatedImages, pc, orderedSections,
                   thrownAt, idx, needsRegeneration, cursor, results, call, log,
                   answers>>

Next ==
    \/ StartChapter
    \/ AttemptPass1
    \/ \E ok \in BOOLEAN : BackendReturns1(ok)
    \/ AttemptPass2
    \/ \E ok \in BOOLEAN : BackendReturns2(ok)
    \/ \E built \in BOOLEAN : RunnerEnds(built)

Spec == Init /\ [][Next]_vars

\* a step of processChapter: the loops run on, and every backend call
\* awaited returns or fails
ProcessChapterStep ==
    \/ StartChapter
    \/ AttemptPass1
    \/ \E ok \in BOOLEAN : BackendReturns1(ok)
    \/ AttemptPass2
    \/ \E ok \in BOOLEAN : BackendReturns2(ok)

\* processChapter has a step to take
Running == pc \in {"start", "pass1", "call1", "pass2", "call2"}

\* weak fairness of the steps of processChapter, WF_vars(ProcessChapterStep),
\* with ENABLED <<ProcessChapterStep>>_vars written as the state predicate it
\* equals, Running
FairSpec ==
    /\ Init
    /\ [][Next]_vars
    /\ ([]<>(~Running) \/ []<><<ProcessChapterStep>>_vars)

(* ------- generateWithGeminiReference and the script it generates ------- *)
\* line 265: let retries = 3
InitialRetries == 3

\* line 306: the file the script is written to, next to the images
TempScript == ".temp-gemini-ref.js"

\* what ai.models.generateContent does on one attempt (lines 268-285): it
\* answers with an image part, with text parts only, with no candidate, or
\* it throws, the message holding "500" or not
ResponseKinds == {"image", "text", "empty", "error500", "error"}

\* lines 233-310: the script is written and run with node; it reads the
\* reference image before its loop (line 244)
ScriptStarts ==
    /\ pc \in {"call1", "call2"}
    /\ call.backend = "generateWithGeminiReference"
    /\ scriptFor # Len(log)
    /\ scriptFor' = Len(log)
    /\ generation' = "running"
    /\ disk' = disk \cup {TempScript}
    /\ scriptPc' = IF call.reference \in disk THEN "request" ELSE "exit1"
    /\ retries' = InitialRetries
    /\ responses' = <<>>
    /\ waits' = 0
    /\ stdout' = {}
    /\ UNCHANGED <<parsed, returned, languageVars>>
    /\ UNCHANGED <<sections, existing, generatedImages, pc, orderedSections,
                   thrownAt, idx, needsRegeneration, cursor, results, call, log,
                   answers, runner, exitCode>>

\* lines 266-297: one turn of the loop "while (retries > 0)"
ScriptAttempt(kind) ==
    /\ scriptPc = "request"
    /\ responses' = Append(responses, kind)
    /\ IF kind = "image"
       THEN /\ disk' = disk \cup {call.output}
            /\ stdout' = stdout \cup {"SUCCESS"}
            /\ scriptPc' = "exit0"
            /\ UNCHANGED retries
       ELSE IF kind \in {"text", "empty"}
       THEN /\ stdout' = IF kind = "text" THEN stdout \cup {"TEXT_RESPONSE"}
                         ELSE stdout
            /\ scriptPc' = "exit1"
            /\ UNCHANGED <<disk, retries>>
       ELSE /\ retries' = retries - 1
            /\ IF kind = "error500" /\ retries - 1 > 0
               THEN scriptPc' = "waiting" /\ stdout' = stdout \cup {"RETRY"}
               ELSE scriptPc' = "exit1" /\ UNCHANGED stdout
            /\ UNCHANGED disk
    /\ UNCHANGED <<parsed, returned, waits, generation, scriptFor, languageVars>>
    /\ UNCHANGED <<sections, existing, generatedImages, pc, orderedSections,
                   thrownAt, idx, needsRegeneration, cursor, results, call, log,
                   answers, runner, exitCode>>

\* line 292: the 3000 ms delay has passed
ScriptWakes ==
    /\ scriptPc = "waiting"
    /\ scriptPc' = "request"
    /\ waits' = waits + 1
    /\ UNCHANGED <<parsed, returned, retries, responses, stdout, generation,
                   scriptFor, languageVars>>
    /\ UNCHANGED generatorVars

\* line 310: the script has run for 60000 ms and is killed
ExecTimesOut ==
    /\ scriptPc \in {"request", "waiting"}
    /\ scriptPc' = "killed"
    /\ UNCHANGED <<parsed, returned, retries, responses, waits, stdout,
                   generation, scriptFor, languageVars>>
    /\ UNCHANGED generatorVars

\* lines 310-322: the script has ended; its file is removed; the call
\* returns success when it ended with code 0 and printed SUCCESS, and
\* throws otherwise
ExecEnds ==
    /\ scriptPc \in {"exit0", "exit1", "killed"}
    /\ generation = "running"
    /\ generation' = IF scriptPc = "exit0" /\ "SUCCESS" \in stdout
                     THEN "success" ELSE "thrown"
    /\ disk' = disk \ {TempScript}
    /\ UNCHANGED <<parsed, returned, scriptPc, retries, responses, waits,
                   stdout, scriptFor, languageVars>>
    /\ UNCHANGED <<sections, existing, generatedImages, pc, orderedSections,
                   thrownAt, idx, needsRegeneration, cursor, results, call, log,
                   answers, runner, exitCode>>

\* the call awaited at line 204 has returned or thrown
GenerationReturns1 ==
    /\ generation \in {"success", "thrown"}
    /\ scriptFor = Len(log)
    /\ BackendReturns1(generation = "success")

GenerationReturns2 ==
    /\ generation \in {"success", "thrown"}
    /\ scriptFor = Len(log)
    /\ BackendReturns2(generation = "success")

\* the call awaited at line 206 or 208 has returned or thrown
OtherBackendReturns(ok) ==
    /\ call.backend # "generateWithGeminiReference"
    /\ BackendReturns1(ok)

\* a chapter of one or two sections is generated into an empty directory or
\* one with an image in it
ScriptInit ==
    /\ \E n \in 1..MaxScriptSections : LoadedChapter(<<>>, n, MaxRefs)
    /\ disk \in DiskSet
    /\ existing = disk
    /\ NoPage
    /\ served = {}
    /\ NotStarted
    /\ NoMethodCall

ScriptNext ==
    \/ StartChapter
    \/ AttemptPass1
    \/ AttemptPass2
    \/ ScriptStarts
    \/ \E kind \in ResponseKinds : ScriptAttempt(kind)
    \/ ScriptWakes
    \/ ExecTimesOut
    \/ ExecEnds
    \/ GenerationReturns1
    \/ GenerationReturns2
    \/ \E ok \in BOOLEAN : OtherBackendReturns(ok)

ScriptSpec == ScriptInit /\ [][ScriptNext]_vars

(* ------------------- methods called on their own ----------------------- *)
\* a registry a generator may hold: some of the ids, each with its image
Registries ==
    {[id \in ids |-> id \o ".jpg"] :
        ids \in SUBSET {IdPool[i] : i \in 1..MaxSections}}

\* a generator that holds a registry and has no chapter in process
Holding(registry) ==
    /\ generatedImages = registry
    /\ disk = {registry[id] : id \in DOMAIN registry}
    /\ existing = disk
    /\ pc = "start"
    /\ orderedSections = <<>>
    /\ thrownAt = ""
    /\ idx = 1
    /\ needsRegeneration = <<>>
    /\ cursor = 1
    /\ results = [total |-> 0, success |-> 0, failed |-> 0, skipped |-> 0,
                  regenerated |-> 0]
    /\ call = NoCall
    /\ log = <<>>
    /\ answers = <<>>
    /\ runner = "running"
    /\ exitCode = 0

\* the strings parseReference is called with: text, "$", "{", a name (empty,
\* an id, two characters, a name with a dot in it), the ending, text
TestStrings ==
    {prefix \o opening \o name \o ending \o trailer :
        prefix \in {<<>>, <<"x">>},
        opening \in {<<"$", "{">>, <<"{">>, <<"$">>, <<>>},
        name \in {<<>>, <<"a">>, <<"z">>, <<"a", "b">>, <<"a", ".", "b">>},
        ending \in {ImageSuffix, <<".", "i", "m", "a", "g", "e">>, <<"}">>,
                    <<".", "j", "p", "g", "}">>, <<>>},
        trailer \in {<<>>, <<"y">>}}

\* this.parseReference(ref), lines 22-28
ParseReferenceCalled(ref) ==
    /\ parsed' = [ref |-> ref, result |-> parseReference(ref), called |-> TRUE]
    /\ UNCHANGED <<returned, scriptPc, retries, responses, waits, stdout,
                   generation, scriptFor>>
    /\ UNCHANGED <<generatorVars, languageVars>>

ParseInit ==
    /\ sections = <<>>
    /\ \E registry \in Registries : Holding(registry)
    /\ NoPage
    /\ served = {}
    /\ NoMethodCall

ParseNext == \E ref \in TestStrings : ParseReferenceCalled(ref)

ParseSpec == ParseInit /\ [][ParseNext]_vars

\* this.resolveReferences(section, sections), lines 33-86, called on the
\* section of a chapter
ResolveReferencesCalled ==
    /\ Len(returned) < MaxCalls
    /\ LET before == [name \in {"section"} |-> sections[1]]
           after == resolveReferencesCall(before, "section", generatedImages)
       IN /\ returned' = Append(returned,
                               [section |-> sections[1],
                                registry |-> generatedImages,
                                resolved |-> after.objects[after.returned]])
          /\ generatedImages' = after.generatedImages
          /\ sections' = <<after.objects["section"]>>
    /\ UNCHANGED <<parsed, scriptPc, retries, responses, waits, stdout,
                   generation, scriptFor>>
    /\ UNCHANGED <<disk, existing, pc, orderedSections, thrownAt, idx,
                   needsRegeneration, cursor, results, call, log, answers,
                   runner, exitCode>>
    /\ UNCHANGED languageVars

ResolveInit ==
    /\ LoadedChapter(<<>>, 1, MaxRefs)
    /\ \E registry \in Registries : Holding(registry)
    /\ NoPage
    /\ served = {}
    /\ NoMethodCall

ResolveNext == ResolveReferencesCalled

ResolveSpec == ResolveInit /\ [][ResolveNext]_vars

(* --------------------- language-switcher.js: a tab --------------------- *)
\* the test images pending
Pending ==
    LET RECURSIVE Sum(_)
        Sum(pairs) ==
            IF pairs = {} THEN 0
            ELSE LET pair == CHOOSE p \in pairs : TRUE
                 IN probes[pair[1]][pair[2]] + Sum(pairs \ {pair})
    IN Sum(MultilangImages \X Languages)

\* updateMultilingualImages, lines 107-150: a test image is created for
\* every image whose src is not the file of the language
probesStarted(lang) ==
    {img \in MultilangImages : imgSrc[img] # variantOf(img, lang)}

\* mutant: the language is not written to localStorage
setLanguageUnstored(lang) ==
    /\ currentLang' = lang
    /\ UNCHANGED storage
    /\ active' = activeButtons(lang)
    /\ probes' = [img \in MultilangImages |-> [l \in Languages |->
                     IF l = lang /\ img \in probesStarted(lang)
                     THEN probes[img][l] + 1 ELSE probes[img][l]]]
    /\ selected' = lang

\* setLanguage, lines 85-104 (no page of the site defines updateContent)
setLanguage(lang) ==
    /\ currentLang' = lang
    /\ storage' = lang
    /\ active' = activeButtons(lang)
    /\ probes' = [img \in MultilangImages |-> [l \in Languages |->
                     IF l = lang /\ img \in probesStarted(lang)
                     THEN probes[img][l] + 1 ELSE probes[img][l]]]
    /\ selected' = lang

\* the page is requested and the script is evaluated: line 4
ScriptRuns ==
    /\ page = "unloaded"
    /\ page' = "loading"
    /\ currentLang' = initialLanguage(storage)
    /\ imgSrc' = baseSrc
    /\ UNCHANGED <<storage, active, probes, served, selected>>
    /\ UNCHANGED <<generatorVars, methodVars>>

\* lines 153-156: createLanguageSwitcher, then setLanguage(currentLang)
DOMContentLoaded ==
    /\ page = "loading"
    /\ page' = "ready"
    /\ setLanguage(currentLang)
    /\ UNCHANGED <<imgSrc, served>>
    /\ UNCHANGED <<generatorVars, methodVars>>

\* lines 77-80: a button is clicked
Click(lang) ==
    /\ page = "ready"
    /\ Pending + Cardinality(probesStarted(lang)) <= MaxProbes
    /\ setLanguage(lang)
    /\ UNCHANGED <<page, imgSrc, served>>
    /\ UNCHANGED <<generatorVars, methodVars>>

\* lines 136-145: a test image has loaded (onload) or failed (onerror)
ProbeCompletes(img, lang) ==
    /\ page = "ready"
    /\ probes[img][lang] > 0
    /\ probes' = [probes EXCEPT ![img][lang] = @ - 1]
    /\ imgSrc' = IF variantOf(img, lang) \in served
                 THEN [imgSrc EXCEPT ![img] = variantOf(img, lang)]
                 ELSE imgSrc
    /\ UNCHANGED <<storage, page, currentLang, active, served, selected>>
    /\ UNCHANGED <<generatorVars, methodVars>>

\* the page is left or reloaded: its script, buttons and images go
Unload ==
    /\ page = "ready"
    /\ page' = "unloaded"
    /\ currentLang' = Null
    /\ active' = {}
    /\ probes' = NoProbes
    /\ imgSrc' = baseSrc
    /\ UNCHANGED <<storage, served, selected>>
    /\ UNCHANGED <<generatorVars, methodVars>>

\* a first visit: nothing stored, no chapter being generated
LanguageInit ==
    /\ NoPage
    /\ served \in ServedSets
    /\ sections = <<>>
    /\ disk = {}
    /\ existing = {}
    /\ NotStarted
    /\ NoMethodCall

LanguageNext ==
    \/ ScriptRuns
    \/ DOMContentLoaded
    \/ \E lang \in Languages : Click(lang)
    \/ \E img \in MultilangImages : \E lang \in Languages :
          ProbeCompletes(img, lang)
    \/ Unload

LanguageSpec == LanguageInit /\ [][LanguageNext]_vars

TypeOK ==
    /\ pc \in {"start", "aborted", "pass1", "call1", "pass2", "call2", "done"}
    /\ DOMAIN generatedImages \subseteq {sections[i].id : i \in 1..Len(sections)}

(* ===================== properties of the claims ======================== *)
\* parseReference of the strings a reference field of a chapter may hold
ParsedRefStrings ==
    [ref \in {RefStringAt(k) : k \in 0..NumRefStrings} |-> parseReference(ref)]

IdNamedBy(ref) ==
    IF ref \in DOMAIN ParsedRefStrings THEN ParsedRefStrings[ref]
    ELSE parseReference(ref)

\* the ids a section names through use_character and use_characters
DepIds(section) ==
    ({IdNamedBy(section.use_character)}
        \cup {IdNamedBy(section.use_characters[k]) :
                 k \in 1..Len(section.use_characters)}) \ {Null}

\* the ids a section names through any of its three reference fields
RefIds(section) ==
    DepIds(section) \cup ({IdNamedBy(section.referenceImage)} \ {Null})

SectionIds == {sections[i].id : i \in 1..Len(sections)}

\* the sections that section i names: as a dependency ("dep": use_character,
\* use_characters), as a reference ("ref": referenceImage as well)
Succ(kind, i) ==
    LET ids == IF kind = "dep" THEN DepIds(sections[i]) ELSE RefIds(sections[i])
    IN {j \in 1..Len(sections) : sections[j].id \in ids}

RECURSIVE Reach(_, _, _)
Reach(kind, todo, seen) ==
    IF todo = {} THEN seen
    ELSE LET new == UNION {Succ(kind, i) : i \in todo} \ seen
         IN Reach(kind, new, seen \cup new)

\* the sections reached from section i along one edge or more
ReachableFrom(kind, i) == Reach(kind, Succ(kind, i), Succ(kind, i))

OnCycle(kind, i) == i \in ReachableFrom(kind, i)

Cyclic(kind) == \E i \in 1..Len(sections) : OnCycle(kind, i)

UniqueIds ==
    \A i, j \in 1..Len(sections) : sections[i].id = sections[j].id => i = j

\* position of section i in the built order, 0 when it is not in it
PositionOf(i) ==
    LET at == {k \in 1..Len(orderedSections) : orderedSections[k] = i}
    IN IF at = {} THEN 0 ELSE CHOOSE k \in at : \A m \in at : k <= m

Built == pc \notin {"start", "aborted"}

\* the state in which buildDependencyOrder has just returned or raised
Returned == pc # "start" /\ log = <<>> /\ call = NoCall

Section(id) == sections[find(sections, id)]

\* C1: while a backend call is awaited, every id the submitted section
\* references (through any of its three fields) is a key of generatedImages,
\* and the file generateWithGeminiReference reads is a registered path that is
\* on disk and belongs to a section attempted earlier in this run
C1_NoUseBeforeExists ==
    call # NoCall =>
        /\ RefIds(Section(call.id)) \subseteq DOMAIN generatedImages
        /\ call.backend = "generateWithGeminiReference" =>
              /\ call.reference \in disk
              /\ \E id \in DOMAIN generatedImages :
                    /\ generatedImages[id] = call.reference
                    /\ \E k \in 1..(Len(log) - 1) :
                          /\ log[k].id = id
                          /\ log[k].outcome \in {"skipped", "submitted"}

\* a section with a reference is in flight at the reference-conditioned backend
C1_Witness ==
    /\ call.backend = "generateWithGeminiReference"
    /\ RefIds(Section(call.id)) # {}
    /\ pc \in {"call1", "call2"}

\* C2: for an acyclic section set with unique ids the order is returned, and in
\* it every section stands strictly after every section it references,
\* directly or transitively, through use_character or use_characters
C2_DependenciesFirst ==
    (Returned /\ UniqueIds /\ ~Cyclic("dep")) =>
        /\ pc # "aborted"
        /\ \A i \in 1..Len(sections) : \A j \in ReachableFrom("dep", i) :
              /\ PositionOf(i) > 0
              /\ PositionOf(j) > 0
              /\ PositionOf(j) < PositionOf(i)

\* an order was returned for a chapter in which the first section depends on
\* the third only transitively, through the second
C2_Witness ==
    /\ Built /\ Returned
    /\ Len(sections) = 3
    /\ Succ("dep", 1) = {2} /\ Succ("dep", 2) = {3}
    /\ orderedSections = <<3, 2, 1>>

\* C3: for an acyclic section set with unique ids the returned order is a
\* permutation of the input: every section once, nothing else
C3_Permutation ==
    (Returned /\ UniqueIds /\ ~Cyclic("dep")) =>
        /\ pc # "aborted"
        /\ Len(orderedSections) = Len(sections)
        /\ \A i \in 1..Len(sections) :
              Cardinality({k \in 1..Len(orderedSections) :
                              orderedSections[k] = i}) = 1

\* an order that is not the input order, with a section two others depend on
C3_Witness ==
    /\ Built /\ Returned
    /\ Len(orderedSections) = 3
    /\ Succ("dep", 1) = {3} /\ Succ("dep", 2) = {3}
    /\ orderedSections = <<3, 1, 2>>

\* the positions of the log at which section id was attempted in a pass
Entries(pass, id) ==
    {k \in 1..Len(log) : log[k].pass = pass /\ log[k].id = id}

DeferredIn(pass, id) ==
    \E k \in Entries(pass, id) : log[k].outcome = "deferred"

\* the sections with a reference that names no section of the set
DanglingSections ==
    {i \in 1..Len(sections) : ~(RefIds(sections[i]) \subseteq SectionIds)}

\* C4: whenever the reference edges of the section set contain a cycle,
\* buildDependencyOrder raises an Error naming a section on the cycle and
\* returns no order
C4_CycleRaises ==
    (Returned /\ UniqueIds /\ Cyclic("ref")) =>
        /\ pc = "aborted"
        /\ orderedSections = <<>>
        /\ \E i \in 1..Len(sections) :
              sections[i].id = thrownAt /\ OnCycle("ref", i)

\* what holds of the code: the same for the cycles made of use_character and
\* use_characters edges, the only edges visit follows
DependencyCycleRaises ==
    (Returned /\ UniqueIds /\ Cyclic("dep")) =>
        /\ pc = "aborted"
        /\ orderedSections = <<>>
        /\ \E i \in 1..Len(sections) :
              sections[i].id = thrownAt /\ OnCycle("dep", i)

\* C5: when the section set contains a circular dependency, processChapter
\* aborts before any backend call: nothing is attempted, the registry stays
\* empty and the Error reaches the caller
C5_CycleAbortsRun ==
    (pc # "start" /\ Cyclic("ref")) =>
        /\ pc = "aborted"
        /\ thrownAt # ""
        /\ log = <<>>
        /\ call = NoCall
        /\ generatedImages = EmptyRegistry

\* what holds of the code: the same for the cycles visit can see
DependencyCycleAbortsRun ==
    (pc # "start" /\ Cyclic("dep")) =>
        /\ pc = "aborted"
        /\ thrownAt # ""
        /\ log = <<>>
        /\ call = NoCall
        /\ generatedImages = EmptyRegistry

\* C6: a section whose referenceImage names another section X of the set is
\* not attempted in pass 1 before X has been attempted
C6_ReferenceImageScheduledAfter ==
    \A k \in 1..Len(log) :
        LET x == parseReference(Section(log[k].id).referenceImage)
        IN (log[k].pass = 1 /\ x \in SectionIds /\ x # log[k].id) =>
               \E m \in 1..(k - 1) : log[m].pass = 1 /\ log[m].id = x

\* C7: pass 2 starts after pass 1 has attempted every section of the order,
\* attempts only sections deferred in pass 1, each of them once (all of them
\* once the run is done), so no section is attempted more than twice
C7_PassTwoRetriesDeferredOnce ==
    /\ \A id \in SectionIds :
          /\ Cardinality(Entries(1, id)) <= 1
          /\ Cardinality(Entries(2, id)) <= 1
          /\ pc = "done" =>
                Cardinality(Entries(2, id)) = (IF DeferredIn(1, id) THEN 1 ELSE 0)
    /\ \A k \in 1..Len(log) :
          log[k].pass = 2 =>
              /\ DeferredIn(1, log[k].id)
              /\ \A m \in 1..Len(log) : log[m].pass = 1 => m < k
              /\ \A i \in 1..Len(orderedSections) :
                    Entries(1, sections[orderedSections[i]].id) # {}

\* a finished run in which two sections were deferred, the first of them was
\* regenerated in pass 2 (and so deleted from the Set under iteration)
C7_Witness ==
    /\ pc = "done"
    /\ \E k \in 1..(Len(log) - 1) :
          /\ log[k].pass = 2 /\ log[k].outcome = "submitted"
          /\ log[k].id \in DOMAIN generatedImages
          /\ log[k + 1].pass = 2

\* the sections whose backend call of pass 1 failed
FailedInPass1 ==
    {id \in SectionIds :
        /\ \E k \in Entries(1, id) : log[k].outcome = "submitted"
        /\ id \notin DOMAIN generatedImages}

\* the sections still missing a reference in pass 2
StillMissing == {id \in SectionIds : DeferredIn(2, id)}

\* C8: at the end of the run every section still missing a reference after
\* pass 2 is counted in results.failed
C8_StillMissingCountedFailed ==
    pc = "done" =>
        results.failed >= Cardinality(FailedInPass1) + Cardinality(StillMissing)

\* C9: a reference that names no section does not abort the run (only a cycle
\* does); the section holding it is deferred in both passes, is never
\* submitted, skipped or registered; every section is attempted in pass 1
C9_DanglingDeferredNotFatal ==
    /\ (pc = "aborted" /\ DanglingSections # {}) => Cyclic("dep")
    /\ \A i \in 1..Len(sections) :
          \/ /\ sections[i].id \notin DOMAIN generatedImages
             /\ \A k \in 1..Len(log) :
                   log[k].id = sections[i].id => log[k].outcome = "deferred"
             /\ pc = "done" =>
                   DeferredIn(1, sections[i].id) /\ DeferredIn(2, sections[i].id)
          \/ RefIds(sections[i]) \subseteq SectionIds
    /\ pc = "done" =>
          \/ \A i \in 1..Len(sections) : Entries(1, sections[i].id) # {}
          \/ DanglingSections = {}

\* a finished run with a dangling reference in which another section was
\* generated and registered
C9_Witness ==
    /\ pc = "done"
    /\ DanglingSections # {}
    /\ results.success >= 1
    /\ \E i \in DanglingSections : DeferredIn(2, sections[i].id)

\* C10 as claimed: a dangling reference is detected before any backend call
\* and is fatal to the whole run
C10_DanglingIsFatal ==
    (pc # "start" /\ DanglingSections # {}) =>
        /\ pc = "aborted"
        /\ log = <<>>
        /\ call = NoCall

\* C10 as amended: a dangling reference is no structural error: it never
\* raises (the run aborts only on a dependency cycle), no backend call is ever
\* made for the section holding it, and the sections without any reference are
\* still skipped or submitted
C10_DanglingNotStructural ==
    /\ (pc = "aborted" /\ DanglingSections # {}) =>
          (Cyclic("dep") /\ thrownAt \in SectionIds)
    /\ call # NoCall => find(sections, call.id) \notin DanglingSections
    /\ pc = "done" =>
          \/ \A i \in 1..Len(sections) :
                 \/ \E k \in Entries(1, sections[i].id) :
                        log[k].outcome \in {"skipped", "submitted"}
                 \/ RefIds(sections[i]) # {}
          \/ DanglingSections = {}

\* a backend call is in flight although a section with a dangling reference
\* was met (and deferred) before
C10_Witness ==
    /\ pc = "call1"
    /\ \E i \in DanglingSections : DeferredIn(1, sections[i].id)

\* the backend call made for section id has failed
FailedCall(id) ==
    \E k \in 1..Len(answers) : answers[k].id = id /\ ~answers[k].success

\* C11: a failed backend call for a section X does not abort processChapter;
\* every section that stands later in the order and does not reference X is
\* attempted after it (in pass 1, and in pass 2 as well when it was deferred),
\* and every section whose backend call succeeded is registered with its path
C11_FailureIsolated ==
    \A k \in 1..Len(answers) :
        LET x == answers[k].id
        IN IF answers[k].success
           THEN /\ x \in DOMAIN generatedImages
                /\ generatedImages[x] = Section(x).image
           ELSE /\ pc # "aborted"
                /\ pc = "done" =>
                      \A i \in 1..Len(sections) :
                          LET y == sections[i].id
                          IN (/\ PositionOf(i) > PositionOf(find(sections, x))
                              /\ x \notin RefIds(sections[i])) =>
                                 /\ Entries(1, y) # {}
                                 /\ DeferredIn(1, y) => Entries(2, y) # {}
                                 /\ \A m \in Entries(answers[k].pass, y) :
                                       \A n \in Entries(answers[k].pass, x) : n < m

\* a finished run in which the backend call of a section failed in pass 1 and
\* a later section that does not reference it was generated and registered
C11_Witness ==
    /\ pc = "done"
    /\ \E k, m \in 1..Len(answers) :
          /\ k < m
          /\ answers[k].pass = 1 /\ ~answers[k].success
          /\ answers[m].success
          /\ answers[k].id \notin RefIds(Section(answers[m].id))
          /\ answers[m].id \in DOMAIN generatedImages

\* every section of the chapter has its image: generated or found on disk
FullSuccess == pc = "done" /\ DOMAIN generatedImages = SectionIds

\* some section has no image after both passes
SomeSectionFailed == pc = "done" /\ DOMAIN generatedImages # SectionIds

\* C12: the command-line run exits with code 0 on full success (the page
\* being built) and with a non-zero code if any section has failed generation
\* after both passes or if a cycle was detected
C12_ExitCodeTellsFailure ==
    runner # "running" =>
        /\ (FullSuccess /\ runner # "buildFailed") => exitCode = 0
        /\ SomeSectionFailed => exitCode # 0
        /\ pc = "aborted" => exitCode # 0

\* what holds of the code: the exit code is non-zero exactly when
\* processChapter or the page builder has thrown
ExitCodeTellsThrown ==
    runner # "running" =>
        (exitCode # 0 <=> (pc = "aborted" \/ runner = "buildFailed"))

\* the sections whose output file was on disk when the run started
ExistingSections == {id \in SectionIds : Section(id).image \in existing}

SkippedIn(pass, id) ==
    \E k \in Entries(pass, id) : log[k].outcome = "skipped"

\* C13: a section whose output file is on disk when the run starts is never
\* sent to a backend, in pass 1 or in pass 2; at the end of the run it is in
\* the registry and was counted as skipped
C13_ExistingFileNeverSubmitted ==
    /\ call # NoCall => call.id \notin ExistingSections
    /\ pc = "done" =>
          /\ ExistingSections \subseteq DOMAIN generatedImages
          /\ \A id \in ExistingSections : SkippedIn(1, id)
          /\ results.skipped >= Cardinality(ExistingSections)

\* what holds of the code: the file on disk is looked at only after the
\* missing references (lines 164-172) and only in pass 1 (forceRegenerate is
\* set in pass 2): a section whose file exists is skipped, registered and
\* counted exactly when pass 1 finds none of its references missing
ExistingFileSkippedUnlessDeferred ==
    /\ call.id \in ExistingSections => (pc = "call2" /\ DeferredIn(1, call.id))
    /\ pc = "done" =>
          /\ \A id \in ExistingSections :
                \/ DeferredIn(1, id)
                \/ SkippedIn(1, id) /\ generatedImages[id] = Section(id).image
          /\ results.skipped =
                Cardinality({id \in ExistingSections : ~DeferredIn(1, id)})

\* C14: for every section of the chapter and every registry the run goes
\* through, the call of resolveReferences leaves the fields of its input
\* section as they were, returns an object that is not the input object, and
\* leaves the registry unchanged
C14_ResolveLeavesInput ==
    pc \in {"pass1", "pass2"} =>
        \A i \in 1..Len(sections) :
            LET before == [name \in {"section"} |-> sections[i]]
                after == resolveReferencesCall(before, "section", generatedImages)
            IN /\ after.objects["section"] = sections[i]
               /\ after.returned # "section"
               /\ after.generatedImages = generatedImages

\* a section is about to be resolved against a registry that holds the image
\* it references: the resolved object gets fields the input does not have
C14_Witness ==
    /\ pc = "pass1"
    /\ LET section == sections[orderedSections[idx]]
           before == [name \in {"section"} |-> section]
           after == resolveReferencesCall(before, "section", generatedImages)
       IN /\ after.objects[after.returned].characterReference # ""
          /\ after.objects[after.returned].characterId \in DOMAIN generatedImages

\* the ids a resolved section marks as missing, the paths it has attached
MissingMarkers(resolved) ==
    ({resolved.missingCharacterRef} \ {""})
        \cup {resolved.missingCharacterRefs[k] :
                 k \in 1..Len(resolved.missingCharacterRefs)}

AttachedPaths(resolved) ==
    ({resolved.characterReference} \ {""})
        \cup {resolved.characterReferences[k].path :
                 k \in 1..Len(resolved.characterReferences)}

\* the ids a section names through use_characters
ListIds(section) ==
    {parseReference(section.use_characters[k]) :
        k \in 1..Len(section.use_characters)} \ {Null}

\* C15: for every section and registry, resolveReferences attaches the path of
\* every referenced id that is in the registry and marks as missing every
\* referenced id that is not, over the three reference fields together
C15_AllMissingReported ==
    pc \in {"pass1", "pass2"} =>
        \A i \in 1..Len(sections) :
            LET resolved == resolveReferences(sections[i], generatedImages)
            IN \A id \in RefIds(sections[i]) :
                  IF id \in DOMAIN generatedImages
                  THEN generatedImages[id] \in AttachedPaths(resolved)
                  ELSE id \in MissingMarkers(resolved)

\* what holds of the code: the entries of use_characters are handled one by
\* one, and of referenceImage and use_character the field read last
\* (use_character) is always handled; the marker or path of referenceImage is
\* overwritten when use_character is of the same kind (missing or attached)
ListAndLastFieldResolved ==
    pc \in {"pass1", "pass2"} =>
        \A i \in 1..Len(sections) :
            LET resolved == resolveReferences(sections[i], generatedImages)
                last == parseReference(sections[i].use_character)
            IN \A id \in ListIds(sections[i]) \cup ({last} \ {Null}) :
                  IF id \in DOMAIN generatedImages
                  THEN generatedImages[id] \in AttachedPaths(resolved)
                  ELSE id \in MissingMarkers(resolved)

\* C16: once setLanguage(l) has run, a page load starts with currentLang = l
\* (English when setLanguage never ran and nothing is stored), and the page
\* made ready has l as its language and l's button, and no other, active
C16_LanguagePersists ==
    /\ page = "loading" =>
          currentLang = (IF selected = Null THEN "en" ELSE selected)
    /\ page = "ready" =>
          /\ currentLang = selected
          /\ storage = selected
          /\ active = {selected}

\* the script has just been evaluated on a later page load, with the Russian
\* chosen on an earlier page
C16_Witness ==
    /\ page = "loading"
    /\ selected = "ru"
    /\ currentLang = "ru"

\* the step completes section id: generateImage finds its file on disk
\* (skip) or its backend call returns success
CompletesNow(id) ==
    \/ /\ Len(log') = Len(log) + 1
       /\ log'[Len(log')].id = id
       /\ log'[Len(log')].outcome = "skipped"
    \/ /\ Len(answers') = Len(answers) + 1
       /\ answers'[Len(answers')].id = id
       /\ answers'[Len(answers')].success

\* C17: in every step of a run the keys of generatedImages stay, with the
\* path they have; a key is added only by the step that completes its section
\* (skip or success), one key a step, and every such step adds the key of
\* its section: the keys are added in the order the sections complete
C17_RegistryAppendOnly ==
    [][/\ \A id \in DOMAIN generatedImages :
             /\ id \in DOMAIN generatedImages'
             /\ generatedImages'[id] = generatedImages[id]
       /\ Cardinality(DOMAIN generatedImages' \ DOMAIN generatedImages) <= 1
       /\ \A id \in SectionIds :
             CompletesNow(id) <=>
                 (id \in DOMAIN generatedImages' \ DOMAIN generatedImages)]_vars

\* a finished run whose registry got a key by a skip, then one by a
\* success of pass 1, then one by a success of pass 2
C17_Witness ==
    /\ pc = "done"
    /\ Cardinality(DOMAIN generatedImages) = 3
    /\ results.skipped = 1 /\ results.success = 1 /\ results.regenerated = 1
    /\ log[1].outcome = "skipped"

\* the backend call made for section id has returned success
SucceededCall(id) ==
    \E k \in 1..Len(answers) : answers[k].id = id /\ answers[k].success

\* C18: at every point of a run every key of generatedImages is the id of a
\* section of the chapter whose image is there: found on disk (skip) or
\* generated with success in this run; a section whose backend call failed
\* and a section that stands deferred are not keys
C18_KeysAreProduced ==
    /\ \A id \in DOMAIN generatedImages :
          /\ id \in SectionIds
          /\ \/ SkippedIn(1, id) /\ Section(id).image \in existing
             \/ SucceededCall(id)
          /\ generatedImages[id] \in disk
    /\ \A k \in 1..Len(answers) :
          ~answers[k].success => answers[k].id \notin DOMAIN generatedImages
    /\ \A k \in 1..Len(needsRegeneration) :
          needsRegeneration[k] \notin DOMAIN generatedImages

\* a finished run with a skipped and a generated section in the registry, a
\* failed section and a section still deferred
C18_Witness ==
    /\ pc = "done"
    /\ results.skipped = 1
    /\ \E id \in DOMAIN generatedImages : SucceededCall(id)
    /\ \/ \E id \in SectionIds : FailedCall(id)
       \/ needsRegeneration # <<>>

\* no reference, direct or transitive, through any field, leads from one of
\* the two sections to the other
Independent(i, j) ==
    /\ j \notin ReachableFrom("ref", i)
    /\ i \notin ReachableFrom("ref", j)

\* C19: in the order buildDependencyOrder returns, two sections with no
\* direct or transitive dependency between them stand in their input order
C19_StableForIndependent ==
    (Returned /\ pc # "aborted") =>
        \A i, j \in 1..Len(sections) :
            (i < j /\ Independent(i, j)) => PositionOf(i) < PositionOf(j)

\* what holds of the code: the visit is depth-first in input order, so a
\* section stands before a section given earlier only when a section given
\* no later than that one depends on it, directly or transitively
MovedForwardAsDependencyOnly ==
    (Returned /\ pc # "aborted") =>
        \A i, j \in 1..Len(sections) :
            (i < j /\ PositionOf(j) < PositionOf(i)) =>
                \E k \in 1..i : j \in ReachableFrom("dep", k)

InFlight ==
    Cardinality({k \in 1..Len(log) : log[k].outcome = "submitted"})
        - Len(answers)

\* C21: at no point of a run are two backend calls in flight (the one in
\* flight is the one awaited); the registry changes only by the key of the
\* section at hand, in a step that leaves no call in flight; pass 1 attempts
\* the sections in the order buildDependencyOrder returned, all of them
\* before pass 2
C21_OneAtATime ==
    /\ [](/\ InFlight = (IF call = NoCall THEN 0 ELSE 1)
          /\ (call # NoCall) <=> (pc \in {"call1", "call2"})
          /\ \A k \in 1..Len(log) :
                log[k].pass = 1 =>
                    /\ k <= Len(orderedSections)
                    /\ log[k].id = sections[orderedSections[k]].id
          /\ pc \in {"pass2", "call2", "done"} =>
                /\ Len(log) >= Len(orderedSections)
                /\ \A k \in 1..Len(orderedSections) : log[k].pass = 1)
    /\ [][generatedImages' # generatedImages =>
             /\ InFlight' = 0
             /\ LET id == IF call # NoCall THEN call.id
                          ELSE sections[orderedSections[idx]].id
                IN generatedImages' =
                       register(generatedImages, id, Section(id).image)]_vars

\* the second of two mutually independent sections is in flight, the first
\* one generated and registered; nothing else is attempted meanwhile
C21_Witness ==
    /\ pc = "call1"
    /\ idx = 2
    /\ InFlight = 1
    /\ Independent(orderedSections[1], orderedSections[2])
    /\ DOMAIN generatedImages = {sections[orderedSections[1]].id}
    /\ Len(log) = 2

\* C22: the backend a section is submitted to is the reference-conditioned
\* one exactly when the section, resolved against the registry of that
\* moment, carries an attached reference path (it is then given one of these
\* paths); otherwise it is one of the two text-to-image backends
C22_BackendByAttachedReference ==
    call # NoCall =>
        LET resolved == resolveReferences(Section(call.id), generatedImages)
        IN IF AttachedPaths(resolved) # {}
           THEN /\ call.backend = "generateWithGeminiReference"
                /\ call.reference \in AttachedPaths(resolved)
           ELSE /\ call.backend \in {"generateWithGemini", "generateWithOpenAI"}
                /\ call.reference = ""

\* a section whose only attached reference is an entry of characterReferences
\* is in flight at the reference-conditioned backend
C22_Witness ==
    /\ call.backend = "generateWithGeminiReference"
    /\ LET resolved == resolveReferences(Section(call.id), generatedImages)
       IN /\ resolved.characterReference = ""
          /\ Len(resolved.characterReferences) = 1

\* the service has returned no usable image: text parts only, or no candidate
Transient == {"text", "empty"}

\* the script has ended reporting a failure
ScriptFailed == scriptPc = "exit1" /\ responses # <<>>

\* C23: in the reference-conditioned generation, the script reports a
\* failure caused by a transient answer of the service (no usable image)
\* only after 3 attempts, with a delay before each new attempt
C23_TransientRetried ==
    (ScriptFailed /\ responses[Len(responses)] \in Transient) =>
        /\ Len(responses) = InitialRetries
        /\ waits = InitialRetries - 1

\* what holds of the code: a new attempt follows a thrown Error whose message
\* holds "500" and nothing else, after one delay each, for 3 attempts at
\* most; an answer without a usable image ends the script at once
ServerErrorRetried ==
    /\ Len(responses) <= InitialRetries
    /\ waits <= Len(responses)
    /\ \A k \in 1..(Len(responses) - 1) : responses[k] = "error500"
    /\ ScriptFailed =>
          /\ waits = Len(responses) - 1
          /\ responses[Len(responses)] = "error500" =>
                Len(responses) = InitialRetries
    /\ (scriptPc = "exit1" /\ generation \in {"success", "thrown"}) =>
          generation = "thrown"

\* no referenceImage, no use_character, and use_characters absent or empty
ZeroReferences(section) ==
    /\ section.referenceImage = <<>>
    /\ section.use_character = <<>>
    /\ section.use_characters = <<>>

\* C24: whatever the registry holds, a section with zero references resolves
\* with no missing-reference marker and no attached reference
C24_ZeroReferencesResolveClean ==
    \A k \in 1..Len(returned) :
        ZeroReferences(returned[k].section) =>
            /\ MissingMarkers(returned[k].resolved) = {}
            /\ AttachedPaths(returned[k].resolved) = {}
            /\ returned[k].resolved.characterId = ""

\* a section with zero references has been resolved against a registry that
\* holds its own image and the image of another section
C24_Witness ==
    /\ returned # <<>>
    /\ ZeroReferences(returned[1].section)
    /\ returned[1].section.has_use_characters
    /\ returned[1].section.id \in DOMAIN returned[1].registry
    /\ Cardinality(DOMAIN returned[1].registry) >= 2

ContainsReference(ref) ==
    \E i \in 1..Len(ref) : \E j \in (i + 3)..Len(ref) :
        /\ ref[i] = "$"
        /\ ref[i + 1] = "{"
        /\ \A k \in (i + 2)..(j - 1) : ref[k] # "."
        /\ j + Len(ImageSuffix) - 1 <= Len(ref)
        /\ SubSeq(ref, j, j + Len(ImageSuffix) - 1) = ImageSuffix

WellFormedChapter ==
    /\ \A i \in 1..Len(sections) : sections[i].referenceImage = <<>>
    /\ UniqueIds
    /\ DanglingSections = {}
    /\ ~Cyclic("dep")

\* C27: in a run of a well-formed chapter in which no backend call has failed
\* the order is built, no section is deferred, pass 2 attempts nothing, and
\* once the run is done every section id is a key of the registry
C27_WellFormedAllGenerated ==
    \/ /\ pc # "aborted"
       /\ needsRegeneration = <<>>
       /\ \A k \in 1..Len(log) : log[k].pass = 1 /\ log[k].outcome # "deferred"
       /\ pc \notin {"pass2", "call2"}
       /\ pc = "done" =>
             /\ DOMAIN generatedImages = SectionIds
             /\ results.success + results.skipped = Len(sections)
             /\ results.failed = 0 /\ results.regenerated = 0
    \/ \E k \in 1..Len(answers) : ~answers[k].success
    \/ ~WellFormedChapter

\* a finished run of a chain of depth two (the first section depends on the
\* second, the second on the third), one image found in the directory
C27_Witness ==
    /\ pc = "done"
    /\ Len(sections) = 3
    /\ Succ("dep", 1) = {2} /\ Succ("dep", 2) = {3}
    /\ WellFormedChapter
    /\ DOMAIN generatedImages = SectionIds
    /\ results.skipped = 1 /\ results.success = 2

\* the sections that reference section x, directly or through other sections
ReferencingSections(x) ==
    {i \in 1..Len(sections) : find(sections, x) \in ReachableFrom("ref", i)}

\* C28: a section X whose backend call failed in pass 1 is not a key of the
\* registry and has no entry in pass 2; a section that references X, directly
\* or transitively, is never submitted, skipped or registered, was deferred in
\* pass 1 once pass 1 is over and deferred again in pass 2 once the run is done
C28_FailureBlocksDependents ==
    \A k \in 1..Len(answers) :
        \/ answers[k].success
        \/ answers[k].pass # 1
        \/ LET x == answers[k].id
           IN /\ x \notin DOMAIN generatedImages
              /\ Entries(2, x) = {}
              /\ \A m \in 1..Len(needsRegeneration) : needsRegeneration[m] # x
              /\ \A i \in ReferencingSections(x) :
                    LET y == sections[i].id
                    IN /\ y \notin DOMAIN generatedImages
                       /\ \A m \in 1..Len(log) :
                             log[m].id = y => log[m].outcome = "deferred"
                       /\ pc \in {"pass2", "call2", "done"} => DeferredIn(1, y)
                       /\ pc = "done" => DeferredIn(2, y)

\* a finished run in which the backend call of the third section failed in
\* pass 1, the second section references it and the first the second
C28_Witness ==
    /\ pc = "done"
    /\ Len(sections) = 3
    /\ \E k \in 1..Len(answers) :
          /\ answers[k].pass = 1 /\ ~answers[k].success
          /\ answers[k].id = sections[3].id
    /\ 3 \in Succ("ref", 2) /\ 2 \in Succ("ref", 1)
    /\ ReferencingSections(sections[3].id) = {1, 2}
    /\ DeferredIn(2, sections[1].id) /\ DeferredIn(2, sections[2].id)

\* the sections a run has counted in each field of results, read off the
\* history of the run
Answered(pass, ok) ==
    {answers[k].id : k \in {m \in 1..Len(answers) :
                               answers[m].pass = pass /\ answers[m].success = ok}}

CountedSkipped == {id \in SectionIds : SkippedIn(1, id)}

Deferred == {needsRegeneration[k] : k \in 1..Len(needsRegeneration)}

\* C29: the four counters of results count four disjoint sets of sections
\* (generated in pass 1, found on disk, failed in pass 1, generated in pass 2),
\* none of which holds a section still in the deferred set, each section once;
\* when the run is done the four counters and the size of the deferred set
\* add up to results.total, the number of sections
C29_ResultAccounting ==
    Built =>
        LET success == Answered(1, TRUE)
            failed == Answered(1, FALSE)
            regenerated == Answered(2, TRUE)
            skipped == CountedSkipped
        IN /\ results.success = Cardinality(success)
           /\ results.failed = Cardinality(failed)
           /\ results.regenerated = Cardinality(regenerated)
           /\ results.skipped = Cardinality(skipped)
           /\ Len(needsRegeneration) = Cardinality(Deferred)
           /\ Cardinality(success \cup failed \cup regenerated \cup skipped
                              \cup Deferred)
                 = results.success + results.failed + results.regenerated
                       + results.skipped + Len(needsRegeneration)
           /\ pc = "done" =>
                 /\ results.total = Len(sections)
                 /\ results.success + results.skipped + results.failed
                       + results.regenerated + Len(needsRegeneration)
                       = results.total

\* a finished run that has generated a section in pass 1, counted the failed
\* backend call of another and generated the third in pass 2
C29_Witness ==
    /\ pc = "done"
    /\ results.success = 1 /\ results.failed = 1 /\ results.regenerated = 1
    /\ results.total = 3

\* C30: once no test image is pending, every multilingual image whose variant
\* for the language selected last is served shows that variant
C30_LatestSelectionShown ==
    (page = "ready" /\ Pending = 0) =>
        \A img \in MultilangImages :
            variantOf(img, currentLang) \in served =>
                imgSrc[img] = variantOf(img, currentLang)

\* what holds of the code: an image shows the English file the page came
\* with or a served variant of a language that was selected on this page, the
\* one whose test image loaded last
SomeSelectionShown ==
    page = "ready" =>
        \A img \in MultilangImages :
            /\ imgSrc[img] \in served
            /\ \E lang \in Languages : imgSrc[img] = variantOf(img, lang)

====
